---------------------------- MODULE Spec2Model ----------------------------
(***************************************************************************)
(* smolbar: the bar (src/src/bar.rs, Smolbar) and its blocks               *)
(* (src/src/block.rs, Block) as a system of tokio tasks that communicate   *)
(* over bounded mpsc channels and share the blocks mutex.                  *)
(*                                                                         *)
(* Tasks: the caller of Smolbar::new / Smolbar::run (the "bar"), the       *)
(* refresh task spawned by run, and per block the cmd, interval and signal *)
(* tasks.  Every action below is one run of a task from one suspension     *)
(* point (.await) to the next.                                             *)
(***************************************************************************)
EXTENDS Integers, Sequences, FiniteSets, TLC

(* ------------------------------ bounds -------------------------------- *)

\* blocks constructed over the whole run (Smolbar::new plus every reload)
MaxInst == 3

\* lines of a command's output that a merge is given
MaxLines == 6

(* ------------------------- program constants -------------------------- *)

\* mpsc::channel(1) of the bar's refresh channel
RefreshCap == 1
\* mpsc::channel(1) of a block's cmd channel
CmdCap == 1
\* mpsc::channel(1) of the control channel the caller makes
CtlCap == 1

(* ------------------------------ options ------------------------------- *)

None == <<>>
Some(v) == <<v>>
IsSome(o) == o # <<>>
Unwrap(o) == o[1]

(* -------------------------------- Body -------------------------------- *)

\* Body::new(): every field blank.  The model keeps the first six fields of
\* Body, in the order apply_scopes updates them; border_top is a u32, the
\* others are strings.  A u32 is written as its decimal numeral.
NoBody ==
  [full_text |-> None, short_text |-> None, color |-> None,
   background |-> None, border |-> None, border_top |-> None]

(* --------------------------- configuration ---------------------------- *)

\* TomlBlock values of the configurations the file may hold.  interval is
\* "valid" for a positive representable interval; signal is "ok" for a signal
\* that registers; body is the local scope.
TomlBlocks ==
  << [command |-> TRUE,  interval |-> "valid",  signal |-> "absent",
      prefix |-> Some("A: "), postfix |-> None, body |-> NoBody],
     [command |-> TRUE,  interval |-> "absent", signal |-> "absent",
      prefix |-> None, postfix |-> Some("!"),
      body |-> [NoBody EXCEPT !.full_text = Some("b")]],
     [command |-> FALSE, interval |-> "absent", signal |-> "ok",
      prefix |-> Some("CPU: "), postfix |-> None,
      body |-> [NoBody EXCEPT !.full_text = Some("idle")]] >>

Item == 1..Len(TomlBlocks)

\* config.toml.blocks of the configurations Config::read_from_path may return
Configs == { <<1, 2>>, <<2, 1>>, <<3>> }

\* config.toml.body: the global scope.  read_from_path sets an undefined
\* global full_text to the empty string.
GlobalBody == [NoBody EXCEPT !.full_text = Some("")]

\* what command.output() followed by String::from_utf8 may yield
CmdResults == {"ok", "err", "invalid_utf8"}

\* an `immediate` that keeps the text of the failure
immediate_raw(r) == <<r>>

\* `immediate`: the command's stdout, or "" when the command failed or gave
\* invalid utf8; as the sequence of its lines
immediate(r) == IF r = "ok" THEN <<"ok">> ELSE <<>>

(* ----------------------------- scope merge ---------------------------- *)

\* lines.next()
LineAt(lines, k) == IF k <= Len(lines) THEN Some(lines[k]) ELSE None

\* <u32 as FromStr>::from_str on the lines the model draws: a numeral parses
\* to its value (leading zeros dropped), anything else is an error
ParseU32(val) ==
  IF val = "07" THEN Some("7")
  ELSE IF val = "7" THEN Some("7")
  ELSE None

\* val.parse::<T>(): a string always parses to itself
parse(T, val) == IF T = "u32" THEN ParseU32(val) ELSE Some(val)

\* an update that prefers the local value to the line
update_local_first(T, value, local, global) ==
  LET new == IF IsSome(value) THEN parse(T, Unwrap(value)) ELSE None
  IN  IF IsSome(local) THEN local
      ELSE IF IsSome(new) THEN new
      ELSE global

\* update(): the parsed line when there is a line and it parses, else the
\* local value, else the global value
update(T, value, local, global) ==
  LET new == IF IsSome(value) THEN parse(T, Unwrap(value)) ELSE None
  IN  IF IsSome(new) THEN new
      ELSE IF IsSome(local) THEN local
      ELSE global

\* an affix that treats an unset full_text as the empty string
affix_unset_as_empty(toml, full_text) ==
  LET text == IF IsSome(full_text) THEN Unwrap(full_text) ELSE ""
      pre  == IF IsSome(toml.prefix) THEN Unwrap(toml.prefix) \o text ELSE text
  IN  IF IsSome(toml.postfix) THEN Some(pre \o Unwrap(toml.postfix)) ELSE Some(pre)

\* the end of apply_scopes: prefix is put before and postfix after a set
\* full_text
affix(toml, full_text) ==
  LET pre == IF IsSome(toml.prefix) /\ IsSome(full_text)
               THEN Some(Unwrap(toml.prefix) \o Unwrap(full_text)) ELSE full_text
  IN  IF IsSome(pre) /\ IsSome(toml.postfix)
        THEN Some(Unwrap(pre) \o Unwrap(toml.postfix)) ELSE pre

\* the body as it is partway through apply_scopes: the fields updated, the
\* prefix and the postfix not yet applied
apply_scopes_partway(lines, global, toml) ==
  LET local == toml.body
  IN  [full_text  |-> update("str", LineAt(lines, 1),
                             local.full_text, global.full_text),
       short_text |-> update("str", LineAt(lines, 2),
                             local.short_text, global.short_text),
       color      |-> update("str", LineAt(lines, 3), local.color, global.color),
       background |-> update("str", LineAt(lines, 4),
                             local.background, global.background),
       border     |-> update("str", LineAt(lines, 5), local.border, global.border),
       border_top |-> update("u32", LineAt(lines, 6),
                             local.border_top, global.border_top)]

\* apply_scopes(): the body after merging `lines` with the local and the
\* global scope, field after field, each update taking the next line
apply_scopes(lines, global, toml) ==
  LET local == toml.body
  IN  [full_text  |-> affix(toml, update("str", LineAt(lines, 1),
                                         local.full_text, global.full_text)),
       short_text |-> update("str", LineAt(lines, 2),
                             local.short_text, global.short_text),
       color      |-> update("str", LineAt(lines, 3), local.color, global.color),
       background |-> update("str", LineAt(lines, 4),
                             local.background, global.background),
       border     |-> update("str", LineAt(lines, 5), local.border, global.border),
       border_top |-> update("u32", LineAt(lines, 6),
                             local.border_top, global.border_top)]

(* ------------------------------- state -------------------------------- *)

Inst == 1..MaxInst

VARIABLES
  \* ---- Smolbar
  config,      \* self.config.toml.blocks
  blocks,      \* the Vec<Block> in the blocks cell, as block instances
  blocksNone,  \* the blocks cell holds None (the vector is taken)
  lock,        \* holder of the blocks mutex: "free", "bar", "refresh"
  barpc,       \* position of the caller of Smolbar::new / Smolbar::run
  handler,     \* the handler the bar runs: "new", "cont", "stop"; between
               \* handlers "none", or "cont_failed" when the last one was a
               \* Cont that logged a read error
  pushIdx,     \* index of the next configured block to push
  cur,         \* the block Block::new is constructing (0: none)
  nextId,      \* number of blocks constructed so far, plus one
  haltq,       \* the taken blocks that are still to be halted
  pushedFrom,  \* the configuration the blocks of the cell were pushed from
  \* ---- control channel
  ctl,         \* messages in the control channel (cont_stop_recv)
  \* ---- refresh task and refresh channel
  rpc,         \* "unspawned", "recv", "select", "write", "exited"
  rchan,       \* messages in the refresh channel
  lastFrame,   \* what stdout ends with, after the header: "none": no frame;
               \* "current": a frame, and neither a body nor the vector has
               \* changed since it was written; "stale": a frame, and one has;
               \* "broken": what a failed write or flush left
  \* ---- per block instance
  life,        \* "unborn", "live", "halted" (halt returned), "dropped"
  toml,        \* the block's TomlBlock (index in TomlBlocks)
  id,          \* the id push_block gave the block
  body,        \* the block's Body
  cmdpc,       \* cmd task: "recv", "select", "send", "done", "panic"
  cchan,       \* messages in the cmd channel
  ipc,         \* interval task: "wait", "send", "idle", "done", "panic"
  ichan,       \* a halt message is in the interval channel
  spc,         \* signal task: "wait", "send", "idle", "done", "panic"
  schan,       \* a halt message is in the signal channel
  orphan,      \* a command process whose result was discarded still runs
  \* ---- stdout
  headers,     \* number of headers written (Smolbar::init calls that succeeded)
  \* ---- one call of apply_scopes, taken alone
  scopes,      \* its arguments: [lines, global, toml]
  merged,      \* None, or Some(the body after the call)
  \* ---- one interval task, taken alone, with its clock
  interval,    \* toml.interval: None or Some(f32)
  timeout,     \* None before the match, then Some(Duration) when the loop runs
  deadline,    \* the Instant the task waits for
  start,       \* the first value of deadline
  clock,       \* what Instant::now() returns
  tipc,        \* "match", "loop", "wait", "send", "idle", "done"
  halt_msg,    \* a halt message is in the interval channel
  sent,        \* the requests the task has sent: the deadline that had passed
               \* and the instant of the send
  \* ---- one Blocks set, taken alone, with its workers
  inner,       \* self.inner, as worker instances
  bpc,         \* the caller: "idle", "remove_await" (in remove_all, at
               \* handle.await), "panic"
  taken,       \* what is left of the vector remove_all took
  token,       \* per worker: its CancellationToken is cancelled
  task,        \* per worker: "unborn", "running", "finished", "panicked"
  wid,         \* per worker: the id Block::new was given
  wtoml,       \* per worker: the TomlBlock Block::new was given
  nextW,       \* number of workers constructed so far, plus one
  removed,     \* number of calls of remove_all that have returned
  \* ---- Smolbar::run of main.rs, taken alone
  cell_none,    \* the blocks cell holds None
  cell_blocks,  \* the vector in the blocks cell, as block instances
  cont_recv,    \* number of messages in the cont channel
  stop_recv,    \* number of messages in the stop channel
  cont_pc,      \* the cont task: "recv", "stopping", "ended", "panic"
  cont_taken,   \* the blocks the cont task took and has still to stop
  stop_pc,      \* the stop task: "recv", "stopping", "join", "done", "panic"
  stop_taken,   \* the blocks the stop task took and has still to stop
  running,      \* per block instance: "unborn", "running", "stopped"
  next_block,   \* number of blocks constructed so far, plus one
  refresh_recv, \* messages in the refresh channel
  refresh_pc,   \* the refresh task: "recv", "failed", "exited"
  cont_fwd,     \* the task forwarding the cont signal: "alive", "panic"
  reload_from   \* history: the block set when the last reload began

barVars   == <<config, blocks, blocksNone, lock, barpc, handler, pushIdx, cur,
               nextId, haltq, pushedFrom>>
ctlVars   == <<ctl>>
rVars     == <<rpc, rchan>>
instVars  == <<life, toml, id, body, cmdpc, cchan, ipc, ichan, spc, schan, orphan>>
mergeVars == <<scopes, merged>>
timerVars == <<interval, timeout, deadline, start, clock, tipc, halt_msg, sent>>
setVars   == <<inner, bpc, taken, token, task, wid, wtoml, nextW, removed>>
mainVars  == <<cell_none, cell_blocks, cont_recv, stop_recv, cont_pc, cont_taken,
               stop_pc, stop_taken, running, next_block, refresh_recv,
               refresh_pc, cont_fwd, reload_from>>
unitVars  == <<timerVars, setVars, mainVars>>
vars      == <<barVars, ctlVars, rVars, lastFrame, instVars, headers, mergeVars,
               unitVars>>

\* the bar before Smolbar::new pushes its first block
InitBar ==
  /\ config \in Configs
  /\ blocks = <<>>
  /\ blocksNone = FALSE
  /\ lock = "free"
  /\ barpc = "push"
  /\ handler = "new"
  /\ pushIdx = 1
  /\ cur = 0
  /\ nextId = 1
  /\ haltq = <<>>
  /\ pushedFrom = config
  /\ ctl = <<>>
  /\ rpc = "unspawned"
  /\ rchan = <<>>
  /\ lastFrame = "none"
  /\ life = [i \in Inst |-> "unborn"]
  /\ toml = [i \in Inst |-> 1]
  /\ id = [i \in Inst |-> 0]
  /\ body = [i \in Inst |-> NoBody]
  /\ cmdpc = [i \in Inst |-> "done"]
  /\ cchan = [i \in Inst |-> <<>>]
  /\ ipc = [i \in Inst |-> "done"]
  /\ ichan = [i \in Inst |-> FALSE]
  /\ spc = [i \in Inst |-> "done"]
  /\ schan = [i \in Inst |-> FALSE]
  /\ orphan = [i \in Inst |-> FALSE]
  /\ headers = 0

\* no interval task is looked at alone
NoTimer ==
  /\ interval = None /\ timeout = None
  /\ deadline = 0 /\ start = 0 /\ clock = 0
  /\ tipc = "done" /\ halt_msg = FALSE /\ sent = <<>>

\* no Blocks set is looked at alone
NoSet ==
  /\ inner = <<>> /\ bpc = "idle" /\ taken = <<>>
  /\ token = <<>> /\ task = <<>> /\ wid = <<>> /\ wtoml = <<>>
  /\ nextW = 1 /\ removed = 0

\* no Smolbar of main.rs is looked at alone
NoMain ==
  /\ cell_none = FALSE /\ cell_blocks = <<>>
  /\ cont_recv = 0 /\ stop_recv = 0
  /\ cont_pc = "ended" /\ cont_taken = <<>>
  /\ stop_pc = "done" /\ stop_taken = <<>>
  /\ running = <<>> /\ next_block = 1
  /\ refresh_recv = <<>> /\ refresh_pc = "exited"
  /\ cont_fwd = "alive" /\ reload_from = <<>>

\* no call of apply_scopes is looked at alone
NoMerge ==
  /\ scopes = [lines |-> <<>>, global |-> GlobalBody, toml |-> TomlBlocks[1]]
  /\ merged = None

Init ==
  /\ InitBar
  /\ NoMerge
  /\ NoTimer
  /\ NoSet
  /\ NoMain

(* ------------------------------ helpers ------------------------------- *)

Range(q) == {q[k] : k \in 1..Len(q)}

\* the refresh receiver exists: it is dropped when the refresh task ends and
\* when run returns early
RefreshRecvAlive == rpc # "exited" /\ barpc # "err"

\* the cmd receiver of block i exists: it is dropped when the cmd task ends
CmdRecvAlive(i) == cmdpc[i] \notin {"done", "panic"}

\* every sender of block i's cmd channel is dropped: the Block itself and the
\* clones held by its interval and signal tasks
CmdSendersGone(i) ==
  /\ life[i] = "dropped"
  /\ ipc[i] \in {"done", "panic"}
  /\ spc[i] \in {"done", "panic"}

\* every task of block i has terminated
TasksEnded(i) ==
  /\ cmdpc[i] \in {"done", "panic"}
  /\ ipc[i] \in {"done", "panic"}
  /\ spc[i] \in {"done", "panic"}

\* the frame the refresh loop writes: the bodies of the blocks, in vector order
Snapshot == [k \in 1..Len(blocks) |-> body[blocks[k]]]

\* a step other than a frame write: the frame stdout ends with stops being
\* current when the step changes a body or the vector
FrameAges ==
  lastFrame' = IF lastFrame = "current" /\ Snapshot' # Snapshot
                 THEN "stale" ELSE lastFrame

(* ------------------- Smolbar::push_block, Block::new ------------------- *)

\* a push at the front of the vector, which VecPush must differ from
VecPushFront(vec, b) == <<b>> \o vec

\* vec.push(block)
VecPush(vec, b) == Append(vec, b)

\* push_block takes the blocks lock and calls Block::new, which merges the
\* scopes into the fresh body (task_cmd, before its spawn), spawns the cmd,
\* interval and signal tasks and then awaits cmd_send.send(true).
PushBlock ==
  /\ barpc = "push"
  /\ pushIdx <= Len(config)
  /\ lock = "free"
  /\ ~blocksNone
  /\ nextId \in Inst
  /\ LET i == nextId
         t == config[pushIdx]
     IN  /\ life' = [life EXCEPT ![i] = "live"]
         /\ toml' = [toml EXCEPT ![i] = t]
         /\ id' = [id EXCEPT ![i] = Len(blocks) + 1]
         /\ body' = [body EXCEPT ![i] = apply_scopes(<<>>, GlobalBody, TomlBlocks[t])]
         /\ cmdpc' = [cmdpc EXCEPT ![i] = "recv"]
         /\ ipc' = [ipc EXCEPT ![i] =
                      IF TomlBlocks[t].interval = "valid" THEN "wait" ELSE "idle"]
         /\ spc' = [spc EXCEPT ![i] =
                      IF TomlBlocks[t].signal = "ok" THEN "wait" ELSE "idle"]
         /\ cur' = i
         /\ nextId' = i + 1
  /\ lock' = "bar"
  /\ barpc' = "push_send"
  /\ UNCHANGED <<config, blocks, blocksNone, handler, pushIdx, haltq, pushedFrom,
                 ctlVars, rVars, cchan, ichan, schan, orphan>>
  /\ FrameAges
  /\ UNCHANGED <<headers, mergeVars, unitVars>>

\* Block::new: cmd_send.send(true) completes, new returns, push_block pushes
\* the block and releases the lock.
BlockNewSend ==
  /\ barpc = "push_send"
  /\ CmdRecvAlive(cur)
  /\ Len(cchan[cur]) < CmdCap
  /\ cchan' = [cchan EXCEPT ![cur] = Append(@, TRUE)]
  /\ blocks' = VecPush(blocks, cur)
  /\ lock' = "free"
  /\ cur' = 0
  /\ pushIdx' = pushIdx + 1
  /\ barpc' = "push"
  /\ UNCHANGED <<config, blocksNone, handler, nextId, haltq, pushedFrom,
                 ctlVars, rVars, life, toml, id, body, cmdpc, ipc, ichan, spc,
                 schan, orphan>>
  /\ FrameAges
  /\ UNCHANGED <<headers, mergeVars, unitVars>>

\* the loop over the configured blocks ends: Smolbar::new returns the bar (the
\* caller then calls run), or the Cont arm of run is done.
PushDone ==
  /\ barpc = "push"
  /\ pushIdx > Len(config)
  /\ barpc' = IF handler = "new" THEN "init" ELSE "loop"
  /\ handler' = IF handler = "new" THEN "new" ELSE "none"
  /\ UNCHANGED <<config, blocks, blocksNone, lock, pushIdx, cur, nextId, haltq,
                 pushedFrom, ctlVars, rVars, instVars>>
  /\ FrameAges
  /\ UNCHANGED <<headers, mergeVars, unitVars>>

(* ------------------------ Smolbar::run: header ------------------------- *)

\* self.init() succeeds; run spawns the refresh task and enters the loop.
InitOk ==
  /\ barpc = "init"
  /\ barpc' = "loop"
  /\ handler' = "none"
  /\ rpc' = "recv"
  /\ UNCHANGED <<config, blocks, blocksNone, lock, pushIdx, cur, nextId, haltq,
                 pushedFrom, ctlVars, rchan, instVars>>
  /\ FrameAges
  /\ headers' = headers + 1
  /\ UNCHANGED <<mergeVars, unitVars>>

\* a run that spawns the refresh loop although the header failed
InitErrSpawned ==
  /\ barpc = "init"
  /\ barpc' = "err"
  /\ handler' = "none"
  /\ rpc' = "recv"
  /\ UNCHANGED <<config, blocks, blocksNone, lock, pushIdx, cur, nextId, haltq,
                 pushedFrom, ctlVars, rchan, instVars>>
  /\ FrameAges
  /\ UNCHANGED <<headers, mergeVars, unitVars>>

\* self.init() fails: run returns the error and self is dropped, with it the
\* blocks (their senders and join handles), and the refresh receiver.  The
\* blocks' tasks are detached and go on running.
InitErr ==
  /\ barpc = "init"
  /\ barpc' = "err"
  /\ handler' = "none"
  /\ life' = [i \in Inst |-> IF life[i] = "live" THEN "dropped" ELSE life[i]]
  /\ UNCHANGED <<config, blocks, blocksNone, lock, pushIdx, cur, nextId, haltq,
                 pushedFrom, ctlVars, rVars, toml, id, body, cmdpc, cchan, ipc,
                 ichan, spc, schan, orphan>>
  /\ FrameAges
  /\ UNCHANGED <<headers, mergeVars, unitVars>>

(* --------------------- Smolbar::run: control loop ---------------------- *)

\* a read error handled like Stop, which ContReadErr must differ from
ContReadErrStops ==
  /\ barpc = "loop"
  /\ ctl # <<>> /\ Head(ctl) = "Cont"
  /\ ctl' = Tail(ctl)
  /\ barpc' = "lock"
  /\ handler' = "stop"
  /\ UNCHANGED <<config, blocks, blocksNone, lock, pushIdx, cur, nextId, haltq,
                 pushedFrom, rVars, instVars>>
  /\ FrameAges
  /\ UNCHANGED <<headers, mergeVars, unitVars>>

\* a read error that ends the control loop
ContReadErrBreaks ==
  /\ barpc = "loop"
  /\ ctl # <<>> /\ Head(ctl) = "Cont"
  /\ ctl' = Tail(ctl)
  /\ barpc' = "done"
  /\ handler' = "none"
  /\ UNCHANGED <<config, blocks, blocksNone, lock, pushIdx, cur, nextId, haltq,
                 pushedFrom, rVars, instVars>>
  /\ FrameAges
  /\ UNCHANGED <<headers, mergeVars, unitVars>>

\* Cont received, Config::read_from_path fails: the error is logged and the
\* loop goes on.
ContReadErr ==
  /\ barpc = "loop"
  /\ ctl # <<>> /\ Head(ctl) = "Cont"
  /\ ctl' = Tail(ctl)
  /\ handler' = "cont_failed"
  /\ UNCHANGED <<config, blocks, blocksNone, lock, barpc, pushIdx, cur, nextId,
                 haltq, pushedFrom, rVars, instVars>>
  /\ FrameAges
  /\ UNCHANGED <<headers, mergeVars, unitVars>>

\* a reload that writes the header of the configuration it read
ContReadOkInit(c) ==
  /\ barpc = "loop"
  /\ ctl # <<>> /\ Head(ctl) = "Cont"
  /\ nextId + Len(c) - 1 <= MaxInst
  /\ ctl' = Tail(ctl)
  /\ config' = c
  /\ barpc' = "lock"
  /\ handler' = "cont"
  /\ headers' = headers + 1
  /\ UNCHANGED <<blocks, blocksNone, lock, pushIdx, cur, nextId, haltq,
                 pushedFrom, rVars, instVars, mergeVars, unitVars>>
  /\ FrameAges

\* Cont received, the configuration c is read and stored; the handler then
\* waits for the blocks lock.
ContReadOk(c) ==
  /\ barpc = "loop"
  /\ ctl # <<>> /\ Head(ctl) = "Cont"
  /\ nextId + Len(c) - 1 <= MaxInst
  /\ ctl' = Tail(ctl)
  /\ config' = c
  /\ barpc' = "lock"
  /\ handler' = "cont"
  /\ UNCHANGED <<blocks, blocksNone, lock, pushIdx, cur, nextId, haltq,
                 pushedFrom, rVars, instVars>>
  /\ FrameAges
  /\ UNCHANGED <<headers, mergeVars, unitVars>>

\* Stop received; the handler then waits for the blocks lock.
StopRecv ==
  /\ barpc = "loop"
  /\ ctl # <<>> /\ Head(ctl) = "Stop"
  /\ ctl' = Tail(ctl)
  /\ barpc' = "lock"
  /\ handler' = "stop"
  /\ UNCHANGED <<config, blocks, blocksNone, lock, pushIdx, cur, nextId, haltq,
                 pushedFrom, rVars, instVars>>
  /\ FrameAges
  /\ UNCHANGED <<headers, mergeVars, unitVars>>

\* a handler that halts the blocks but leaves them in the vector
TakeBlocksKeepsThem ==
  /\ barpc = "lock"
  /\ lock = "free"
  /\ ~blocksNone
  /\ lock' = "bar"
  /\ haltq' = blocks
  /\ blocksNone' = TRUE
  /\ barpc' = "halt"
  /\ UNCHANGED <<config, blocks, handler, pushIdx, cur, nextId, pushedFrom,
                 ctlVars, rVars, instVars>>
  /\ FrameAges
  /\ UNCHANGED <<headers, mergeVars, unitVars>>

\* self.blocks.lock().await, then guard.take().unwrap(): the vector is taken
\* and the cell holds None while the guard is held.
TakeBlocks ==
  /\ barpc = "lock"
  /\ lock = "free"
  /\ ~blocksNone
  /\ lock' = "bar"
  /\ haltq' = blocks
  /\ blocks' = <<>>
  /\ blocksNone' = TRUE
  /\ barpc' = "halt"
  /\ UNCHANGED <<config, handler, pushIdx, cur, nextId, pushedFrom, ctlVars,
                 rVars, instVars>>
  /\ FrameAges
  /\ UNCHANGED <<headers, mergeVars, unitVars>>

\* a handler that releases the guard of a Cont without putting a vector back
HaltsDoneLeavesNone ==
  /\ barpc = "halt"
  /\ haltq = <<>>
  /\ IF handler = "cont"
       THEN /\ lock' = "free"
            /\ pushIdx' = 1
            /\ pushedFrom' = config
            /\ barpc' = "push"
            /\ UNCHANGED blocksNone
       ELSE /\ barpc' = "stop_send"
            /\ UNCHANGED <<blocksNone, lock, pushIdx, pushedFrom>>
  /\ UNCHANGED <<config, blocks, handler, cur, nextId, haltq, ctlVars, rVars,
                 instVars>>
  /\ FrameAges
  /\ UNCHANGED <<headers, mergeVars, unitVars>>

\* every taken block is halted.  Cont: Some(empty vector) is put back and the
\* guard released, then the new blocks are pushed.  Stop: the guard is kept.
HaltsDone ==
  /\ barpc = "halt"
  /\ haltq = <<>>
  /\ IF handler = "cont"
       THEN /\ blocksNone' = FALSE
            /\ lock' = "free"
            /\ pushIdx' = 1
            /\ pushedFrom' = config
            /\ barpc' = "push"
       ELSE /\ barpc' = "stop_send"
            /\ UNCHANGED <<blocksNone, lock, pushIdx, pushedFrom>>
  /\ UNCHANGED <<config, blocks, handler, cur, nextId, haltq, ctlVars, rVars,
                 instVars>>
  /\ FrameAges
  /\ UNCHANGED <<headers, mergeVars, unitVars>>

\* Stop: self.refresh_send.send(false)
StopSend ==
  /\ barpc = "stop_send"
  /\ RefreshRecvAlive
  /\ Len(rchan) < RefreshCap
  /\ rchan' = Append(rchan, FALSE)
  /\ barpc' = "stop_join"
  /\ UNCHANGED <<config, blocks, blocksNone, lock, handler, pushIdx, cur, nextId,
                 haltq, pushedFrom, ctlVars, rpc, instVars>>
  /\ FrameAges
  /\ UNCHANGED <<headers, mergeVars, unitVars>>

\* Stop: refresh.await, break, run returns Ok(()) and self is dropped.
StopJoin ==
  /\ barpc = "stop_join"
  /\ rpc = "exited"
  /\ barpc' = "done"
  /\ handler' = "none"
  /\ lock' = "free"
  /\ UNCHANGED <<config, blocks, blocksNone, pushIdx, cur, nextId, haltq,
                 pushedFrom, ctlVars, rVars, instVars>>
  /\ FrameAges
  /\ UNCHANGED <<headers, mergeVars, unitVars>>

(* ----------------------------- Block::halt ----------------------------- *)

\* the block being halted
Halting == Head(haltq)

\* halt spawns the two tasks that send the halt message to the interval and
\* to the signal task (each channel has room: halt is its only sender).
HaltTriggers ==
  /\ barpc = "halt"
  /\ haltq # <<>>
  /\ ichan' = [ichan EXCEPT ![Halting] = TRUE]
  /\ schan' = [schan EXCEPT ![Halting] = TRUE]
  /\ barpc' = "halt_triggers"
  /\ UNCHANGED <<config, blocks, blocksNone, lock, handler, pushIdx, cur, nextId,
                 haltq, pushedFrom, ctlVars, rVars, life, toml, id, body, cmdpc,
                 cchan, ipc, spc, orphan>>
  /\ FrameAges
  /\ UNCHANGED <<headers, mergeVars, unitVars>>

\* a halt that does not await the interval and signal handles
TriggersNotAwaited(i) == TRUE

\* a halt that awaits the interval handle only
IntervalJoinedOnly(i) == ipc[i] = "done"

\* self.interval.1.await and self.signal.1.await
TriggersJoined(i) == ipc[i] = "done" /\ spc[i] = "done"

\* both trigger tasks are joined, then self.cmd.0.send(false)
HaltSendCmd ==
  /\ barpc = "halt_triggers"
  /\ TriggersJoined(Halting)
  /\ CmdRecvAlive(Halting)
  /\ Len(cchan[Halting]) < CmdCap
  /\ cchan' = [cchan EXCEPT ![Halting] = Append(@, FALSE)]
  /\ barpc' = "halt_cmd"
  /\ UNCHANGED <<config, blocks, blocksNone, lock, handler, pushIdx, cur, nextId,
                 haltq, pushedFrom, ctlVars, rVars, life, toml, id, body, cmdpc,
                 ipc, ichan, spc, schan, orphan>>
  /\ FrameAges
  /\ UNCHANGED <<headers, mergeVars, unitVars>>

\* a halt that does not await the cmd handle
CmdNotAwaited(i) == TRUE

\* self.cmd.1.await
CmdJoined(i) == cmdpc[i] = "done"

\* the cmd task is joined and halt returns: halt consumed the block, which
\* is dropped, its body with it; the loop takes the next block
HaltReturn ==
  /\ barpc = "halt_cmd"
  /\ CmdJoined(Halting)
  /\ life' = [life EXCEPT ![Halting] = "halted"]
  /\ body' = [body EXCEPT ![Halting] = NoBody]
  /\ haltq' = Tail(haltq)
  /\ barpc' = "halt"
  /\ UNCHANGED <<config, blocks, blocksNone, lock, handler, pushIdx, cur, nextId,
                 pushedFrom, ctlVars, rVars, toml, id, cmdpc, cchan, ipc,
                 ichan, spc, schan, orphan>>
  /\ FrameAges
  /\ UNCHANGED <<headers, mergeVars, unitVars>>

(* ------------------------ run: the refresh task ------------------------ *)

\* while self.refresh_recv.recv().await.unwrap()
RefreshRecv ==
  /\ rpc = "recv"
  /\ rchan # <<>>
  /\ rchan' = Tail(rchan)
  /\ rpc' = IF Head(rchan) THEN "select" ELSE "exited"
  /\ UNCHANGED <<barVars, ctlVars, instVars>>
  /\ FrameAges
  /\ UNCHANGED <<headers, mergeVars, unitVars>>

\* a refresh loop that only waits for the lock, without the recv branch
RefreshLockOnly ==
  /\ FALSE
  /\ UNCHANGED vars

\* select!, recv branch: a message arrives while waiting for the lock; true
\* ends the select (back to the while condition), false breaks the loop
RefreshSelectRecv ==
  /\ rpc = "select"
  /\ rchan # <<>>
  /\ rchan' = Tail(rchan)
  /\ rpc' = IF Head(rchan) THEN "recv" ELSE "exited"
  /\ UNCHANGED <<barVars, ctlVars, instVars>>
  /\ FrameAges
  /\ UNCHANGED <<headers, mergeVars, unitVars>>

\* select!, lock branch: the blocks lock is acquired
RefreshSelectLock ==
  /\ rpc = "select"
  /\ lock = "free"
  /\ ~blocksNone
  /\ lock' = "refresh"
  /\ rpc' = "write"
  /\ UNCHANGED <<config, blocks, blocksNone, barpc, handler, pushIdx, cur, nextId,
                 haltq, pushedFrom, ctlVars, rchan, instVars>>
  /\ FrameAges
  /\ UNCHANGED <<headers, mergeVars, unitVars>>

\* the frame is written and flushed; the guard is dropped
RefreshWrite ==
  /\ rpc = "write"
  /\ lastFrame' = "current"
  /\ lock' = "free"
  /\ rpc' = "recv"
  /\ UNCHANGED <<config, blocks, blocksNone, barpc, handler, pushIdx, cur, nextId,
                 haltq, pushedFrom, ctlVars, rchan, instVars>>
  /\ UNCHANGED <<headers, mergeVars, unitVars>>

\* a write or the flush fails: the inner task returns the receiver with the
\* error, the outer task logs it and spawns the inner task again
RefreshWriteErr ==
  /\ rpc = "write"
  /\ lastFrame' = "broken"
  /\ lock' = "free"
  /\ rpc' = "recv"
  /\ UNCHANGED <<config, blocks, blocksNone, barpc, handler, pushIdx, cur, nextId,
                 haltq, pushedFrom, ctlVars, rchan, instVars>>
  /\ UNCHANGED <<headers, mergeVars, unitVars>>

(* --------------------------- Block::task_cmd --------------------------- *)

\* a cmd task that runs a command on every request, also when none is
\* configured
CmdRecvRunsCommand(i) ==
  /\ cmdpc[i] = "recv"
  /\ cchan[i] # <<>>
  /\ cchan' = [cchan EXCEPT ![i] = Tail(@)]
  /\ cmdpc' = [cmdpc EXCEPT ![i] = IF ~Head(cchan[i]) THEN "done" ELSE "select"]
  /\ UNCHANGED <<barVars, ctlVars, rVars, life, toml, id, body, ipc, ichan, spc,
                 schan, orphan>>
  /\ FrameAges
  /\ UNCHANGED <<headers, mergeVars, unitVars>>

\* while cmd_recv.recv().await.unwrap(): true with a command configured spawns
\* the command and enters the select!; true without a command does nothing;
\* false ends the task
CmdRecv(i) ==
  /\ cmdpc[i] = "recv"
  /\ cchan[i] # <<>>
  /\ cchan' = [cchan EXCEPT ![i] = Tail(@)]
  /\ cmdpc' = [cmdpc EXCEPT ![i] =
                 IF ~Head(cchan[i]) THEN "done"
                 ELSE IF TomlBlocks[toml[i]].command THEN "select" ELSE "recv"]
  /\ UNCHANGED <<barVars, ctlVars, rVars, life, toml, id, body, ipc, ichan, spc,
                 schan, orphan>>
  /\ FrameAges
  /\ UNCHANGED <<headers, mergeVars, unitVars>>

\* where the cmd task goes when the recv branch of its select! yields msg
\* while the command runs: false breaks the loop, true ends the select!
AfterSelectRecv(msg) == IF msg THEN "recv" ELSE "done"

\* a cmd task that awaits the command alone, without the recv branch
CmdAwaitsCommand(i) ==
  /\ FALSE
  /\ UNCHANGED vars

\* select!, recv branch: the spawn_blocking handle is dropped, the command
\* goes on running and its output is never read
CmdSelectRecv(i) ==
  /\ cmdpc[i] = "select"
  /\ cchan[i] # <<>>
  /\ cchan' = [cchan EXCEPT ![i] = Tail(@)]
  /\ cmdpc' = [cmdpc EXCEPT ![i] = AfterSelectRecv(Head(cchan[i]))]
  /\ orphan' = [orphan EXCEPT ![i] = TRUE]
  /\ UNCHANGED <<barVars, ctlVars, rVars, life, toml, id, body, ipc, ichan, spc,
                 schan>>
  /\ FrameAges
  /\ UNCHANGED <<headers, mergeVars, unitVars>>

\* select!, output branch: the command ended with result r; its lines are
\* merged into the body, then bar_refresh.send(true) is awaited
CmdOutput(i, r) ==
  /\ cmdpc[i] = "select"
  /\ body' = [body EXCEPT ![i] =
                apply_scopes(immediate(r), GlobalBody, TomlBlocks[toml[i]])]
  /\ cmdpc' = [cmdpc EXCEPT ![i] = "send"]
  /\ UNCHANGED <<barVars, ctlVars, rVars, life, toml, id, cchan, ipc, ichan, spc,
                 schan, orphan>>
  /\ FrameAges
  /\ UNCHANGED <<headers, mergeVars, unitVars>>

\* bar_refresh.send(true).await.unwrap(): completes when the channel has
\* room; fails, and the task panics, when the refresh receiver is dropped
CmdSendBar(i) ==
  /\ cmdpc[i] = "send"
  /\ IF RefreshRecvAlive
       THEN /\ Len(rchan) < RefreshCap
            /\ rchan' = Append(rchan, TRUE)
            /\ cmdpc' = [cmdpc EXCEPT ![i] = "recv"]
       ELSE /\ cmdpc' = [cmdpc EXCEPT ![i] = "panic"]
            /\ UNCHANGED rchan
  /\ UNCHANGED <<barVars, ctlVars, rpc, life, toml, id,
                 body, cchan, ipc, ichan, spc, schan, orphan>>
  /\ FrameAges
  /\ UNCHANGED <<headers, mergeVars, unitVars>>

\* cmd_recv.recv() yields None (every sender is dropped, the channel empty):
\* unwrap panics, in the while condition or in the select!
CmdRecvClosed(i) ==
  /\ cmdpc[i] \in {"recv", "select"}
  /\ cchan[i] = <<>>
  /\ CmdSendersGone(i)
  /\ cmdpc' = [cmdpc EXCEPT ![i] = "panic"]
  /\ orphan' = [orphan EXCEPT ![i] = IF cmdpc[i] = "select" THEN TRUE ELSE @]
  /\ UNCHANGED <<barVars, ctlVars, rVars, life, toml, id, body, cchan, ipc, ichan,
                 spc, schan>>
  /\ FrameAges
  /\ UNCHANGED <<headers, mergeVars, unitVars>>

\* a command process whose handle was dropped ends by itself
OrphanExit(i) ==
  /\ orphan[i]
  /\ orphan' = [orphan EXCEPT ![i] = FALSE]
  /\ UNCHANGED <<barVars, ctlVars, rVars, life, toml, id, body, cmdpc, cchan, ipc,
                 ichan, spc, schan>>
  /\ FrameAges
  /\ UNCHANGED <<headers, mergeVars, unitVars>>

(* ------------------------- Block::task_interval ------------------------ *)

\* a timeout_at that lets the deadline win over a halt message that is there
IntervalTickOverHalt(i) ==
  /\ ipc[i] = "wait"
  /\ life[i] # "dropped"
  /\ IF ~CmdRecvAlive(i)
       THEN ipc' = [ipc EXCEPT ![i] = "panic"] /\ UNCHANGED cchan
       ELSE IF Len(cchan[i]) < CmdCap
         THEN cchan' = [cchan EXCEPT ![i] = Append(@, TRUE)] /\ UNCHANGED ipc
         ELSE ipc' = [ipc EXCEPT ![i] = "send"] /\ UNCHANGED cchan
  /\ UNCHANGED <<barVars, ctlVars, rVars, life, toml, id, body, cmdpc, ichan, spc,
                 schan, orphan>>
  /\ FrameAges
  /\ UNCHANGED <<headers, mergeVars, unitVars>>

\* timeout_at(deadline, interval_recv.recv()) times out (no halt message is
\* there, the sender lives), then cmd_send.send(true): done at once when the
\* cmd channel has room, awaited otherwise; it fails when the cmd receiver is
\* dropped
IntervalTick(i) ==
  /\ ipc[i] = "wait"
  /\ ~ichan[i]
  /\ life[i] # "dropped"
  /\ IF ~CmdRecvAlive(i)
       THEN ipc' = [ipc EXCEPT ![i] = "panic"] /\ UNCHANGED cchan
       ELSE IF Len(cchan[i]) < CmdCap
         THEN cchan' = [cchan EXCEPT ![i] = Append(@, TRUE)] /\ UNCHANGED ipc
         ELSE ipc' = [ipc EXCEPT ![i] = "send"] /\ UNCHANGED cchan
  /\ UNCHANGED <<barVars, ctlVars, rVars, life, toml, id, body, cmdpc, ichan, spc,
                 schan, orphan>>
  /\ FrameAges
  /\ UNCHANGED <<headers, mergeVars, unitVars>>

\* the awaited cmd_send.send(true) completes, or fails
IntervalSend(i) ==
  /\ ipc[i] = "send"
  /\ IF ~CmdRecvAlive(i)
       THEN ipc' = [ipc EXCEPT ![i] = "panic"] /\ UNCHANGED cchan
       ELSE /\ Len(cchan[i]) < CmdCap
            /\ cchan' = [cchan EXCEPT ![i] = Append(@, TRUE)]
            /\ ipc' = [ipc EXCEPT ![i] = "wait"]
  /\ UNCHANGED <<barVars, ctlVars, rVars, life, toml, id, body, cmdpc, ichan, spc,
                 schan, orphan>>
  /\ FrameAges
  /\ UNCHANGED <<headers, mergeVars, unitVars>>

\* the halt message is received, in the loop or in the final recv
IntervalHalt(i) ==
  /\ ipc[i] \in {"wait", "idle"}
  /\ ichan[i]
  /\ ichan' = [ichan EXCEPT ![i] = FALSE]
  /\ ipc' = [ipc EXCEPT ![i] = "done"]
  /\ UNCHANGED <<barVars, ctlVars, rVars, life, toml, id, body, cmdpc, cchan, spc,
                 schan, orphan>>
  /\ FrameAges
  /\ UNCHANGED <<headers, mergeVars, unitVars>>

\* interval_recv.recv() yields None (the Block is dropped): unwrap panics
IntervalRecvClosed(i) ==
  /\ ipc[i] \in {"wait", "idle"}
  /\ ~ichan[i]
  /\ life[i] = "dropped"
  /\ ipc' = [ipc EXCEPT ![i] = "panic"]
  /\ UNCHANGED <<barVars, ctlVars, rVars, life, toml, id, body, cmdpc, cchan,
                 ichan, spc, schan, orphan>>
  /\ FrameAges
  /\ UNCHANGED <<headers, mergeVars, unitVars>>

(* -------------------------- Block::task_signal ------------------------- *)

\* select!, stream branch: the signal is delivered, then cmd_send.send(true)
SignalDeliver(i) ==
  /\ spc[i] = "wait"
  /\ IF ~CmdRecvAlive(i)
       THEN spc' = [spc EXCEPT ![i] = "panic"] /\ UNCHANGED cchan
       ELSE IF Len(cchan[i]) < CmdCap
         THEN cchan' = [cchan EXCEPT ![i] = Append(@, TRUE)] /\ UNCHANGED spc
         ELSE spc' = [spc EXCEPT ![i] = "send"] /\ UNCHANGED cchan
  /\ UNCHANGED <<barVars, ctlVars, rVars, life, toml, id, body, cmdpc, ipc, ichan,
                 schan, orphan>>
  /\ FrameAges
  /\ UNCHANGED <<headers, mergeVars, unitVars>>

\* the awaited cmd_send.send(true) completes, or fails
SignalSend(i) ==
  /\ spc[i] = "send"
  /\ IF ~CmdRecvAlive(i)
       THEN spc' = [spc EXCEPT ![i] = "panic"] /\ UNCHANGED cchan
       ELSE /\ Len(cchan[i]) < CmdCap
            /\ cchan' = [cchan EXCEPT ![i] = Append(@, TRUE)]
            /\ spc' = [spc EXCEPT ![i] = "wait"]
  /\ UNCHANGED <<barVars, ctlVars, rVars, life, toml, id, body, cmdpc, ipc, ichan,
                 schan, orphan>>
  /\ FrameAges
  /\ UNCHANGED <<headers, mergeVars, unitVars>>

\* select!, halt branch, or the final recv: the halt message is received
SignalHalt(i) ==
  /\ spc[i] \in {"wait", "idle"}
  /\ schan[i]
  /\ schan' = [schan EXCEPT ![i] = FALSE]
  /\ spc' = [spc EXCEPT ![i] = "done"]
  /\ UNCHANGED <<barVars, ctlVars, rVars, life, toml, id, body, cmdpc, cchan, ipc,
                 ichan, orphan>>
  /\ FrameAges
  /\ UNCHANGED <<headers, mergeVars, unitVars>>

\* sig_recv.recv() yields None (the Block is dropped): unwrap panics
SignalRecvClosed(i) ==
  /\ spc[i] \in {"wait", "idle"}
  /\ ~schan[i]
  /\ life[i] = "dropped"
  /\ spc' = [spc EXCEPT ![i] = "panic"]
  /\ UNCHANGED <<barVars, ctlVars, rVars, life, toml, id, body, cmdpc, cchan, ipc,
                 ichan, schan, orphan>>
  /\ FrameAges
  /\ UNCHANGED <<headers, mergeVars, unitVars>>

(* ------------------- the sender of the control channel ----------------- *)

\* The points at which the sender is taken to send: before run writes the
\* header, while run waits in cont_stop_recv.recv(), and after run has
\* consumed Stop.  A message sent at another point stays in the channel
\* until run is at recv again, and is received there all the same.
CtlSendPoint == barpc \in {"init", "loop", "stop_join"}

\* the signal handler of the caller sends Cont (SIGCONT)
EnvCont ==
  /\ CtlSendPoint
  /\ Len(ctl) < CtlCap
  /\ ctl' = Append(ctl, "Cont")
  /\ UNCHANGED <<barVars, rVars, instVars>>
  /\ FrameAges
  /\ UNCHANGED <<headers, mergeVars, unitVars>>

\* the signal handler of the caller sends Stop (SIGINT, SIGTERM)
EnvStop ==
  /\ CtlSendPoint
  /\ Len(ctl) < CtlCap
  /\ ctl' = Append(ctl, "Stop")
  /\ UNCHANGED <<barVars, rVars, instVars>>
  /\ FrameAges
  /\ UNCHANGED <<headers, mergeVars, unitVars>>

(* --------------------------- specification ----------------------------- *)

Next ==
  \/ PushBlock
  \/ BlockNewSend
  \/ PushDone
  \/ InitOk
  \/ InitErr
  \/ ContReadErr
  \/ \E c \in Configs : ContReadOk(c)
  \/ StopRecv
  \/ TakeBlocks
  \/ HaltsDone
  \/ HaltTriggers
  \/ HaltSendCmd
  \/ HaltReturn
  \/ StopSend
  \/ StopJoin
  \/ RefreshRecv
  \/ RefreshSelectRecv
  \/ RefreshSelectLock
  \/ RefreshWrite
  \/ RefreshWriteErr
  \/ \E i \in Inst : CmdRecv(i)
  \/ \E i \in Inst : CmdSelectRecv(i)
  \/ \E i \in Inst : \E r \in CmdResults : CmdOutput(i, r)
  \/ \E i \in Inst : CmdSendBar(i)
  \/ \E i \in Inst : CmdRecvClosed(i)
  \/ \E i \in Inst : OrphanExit(i)
  \/ \E i \in Inst : IntervalTick(i)
  \/ \E i \in Inst : IntervalSend(i)
  \/ \E i \in Inst : IntervalHalt(i)
  \/ \E i \in Inst : IntervalRecvClosed(i)
  \/ \E i \in Inst : SignalDeliver(i)
  \/ \E i \in Inst : SignalSend(i)
  \/ \E i \in Inst : SignalHalt(i)
  \/ \E i \in Inst : SignalRecvClosed(i)
  \/ EnvCont
  \/ EnvStop

Spec == Init /\ [][Next]_vars

(* ---------------------- apply_scopes, taken alone ---------------------- *)

\* the fields of Body in declaration order, which is the order of the update
\* calls, and their types
FieldOrder ==
  <<"full_text", "short_text", "color", "background", "border", "border_top">>

FieldType(f) == IF f = "border_top" THEN "u32" ELSE "str"

\* lines a command may print
LineVals == {"ok", "", "07"}

\* immediate.lines() of the outputs the merge is given
LineSeqs == UNION {[1..n -> LineVals] : n \in 0..MaxLines}

\* local scopes: a TomlBlock with and without prefix, postfix, full_text and
\* border_top
ScopeTomls ==
  {[command |-> FALSE, interval |-> "absent", signal |-> "absent",
    prefix |-> p, postfix |-> q,
    body |-> [NoBody EXCEPT !.full_text = ft, !.border_top = bt]] :
     p \in {None, Some("A: ")}, q \in {None, Some("!")},
     ft \in {None, Some("b")}, bt \in {None, Some("1")}}

\* global scopes, with and without full_text and border_top
ScopeGlobals ==
  {[NoBody EXCEPT !.full_text = ft, !.border_top = bt] :
     ft \in {None, Some("")}, bt \in {None, Some("2")}}

\* a body, lines and scopes before apply_scopes is called on them
MergeInit ==
  /\ InitBar
  /\ config = <<3>>
  /\ scopes \in [lines : LineSeqs, global : ScopeGlobals, toml : ScopeTomls]
  /\ merged = None
  /\ NoTimer
  /\ NoSet
  /\ NoMain

\* apply_scopes(lines, &global, &toml, &body)
ApplyScopes ==
  /\ merged = None
  /\ merged' = Some(apply_scopes(scopes.lines, scopes.global, scopes.toml))
  /\ UNCHANGED <<barVars, ctlVars, rVars, lastFrame, instVars, headers, scopes,
                 unitVars>>

MergeNext == ApplyScopes

MergeSpec == MergeInit /\ [][MergeNext]_vars

(* ----------------- Block::task_interval and its clock ----------------- *)

\* Durations and Instants are counted in nanoseconds, an f32 number of
\* seconds in tenths of a nanosecond.  The ranges of Duration and of Instant
\* are scaled down; as in the program, a Duration can be longer than the
\* time an Instant can hold.
InstantMax == 100000000
DurationMax == 200000000

\* Duration::from_millis(1)
Millisecond == 1000000

\* Duration::ZERO
ZERO == 0

\* an f32: a number, or NaN, or an infinity
F32(t) == [class |-> "num", tenths |-> t]
NaN == [class |-> "nan", tenths |-> 0]
INFINITY == [class |-> "inf", tenths |-> 1]
NEG_INFINITY == [class |-> "inf", tenths |-> -1]

\* values of toml.interval: absent; NaN and the infinities; a negative
\* number; zero; 0.4 ns and 0.6 ns; half a millisecond; one and two
\* milliseconds; 150 ms, which is a Duration but is more than an Instant can
\* advance by; 210 ms, beyond the range of Duration
IntervalVals ==
  {None} \cup
  {Some(x) : x \in {NaN, INFINITY, NEG_INFINITY}} \cup
  {Some(F32(t)) : t \in {-10000000, 0, 4, 6, 5000000, 10000000, 20000000,
                         1500000000, 2100000000}}

\* the clock advances by steps of half a millisecond up to MaxClock, and a
\* task records up to MaxSent requests
MaxClock == 5
MaxSent == 3
HalfMillisecond == 500000

\* a number of tenths of a nanosecond rounded to the nearest nanosecond, a
\* tie to the even one
RoundNanos(t) ==
  LET q == t \div 10
      r == t % 10
  IN  IF r > 5 \/ (r = 5 /\ q % 2 = 1) THEN q + 1 ELSE q

\* Duration::try_from_secs_f32: Err (None here) for a negative number, for
\* NaN and the infinities and for a value beyond the range of Duration; else
\* the value rounded to a whole number of nanoseconds
try_from_secs_f32(x) ==
  IF x.class = "num" /\ x.tenths < 0 THEN None
  ELSE IF x.class # "num" THEN None
  ELSE IF RoundNanos(x.tenths) > DurationMax THEN None
  ELSE Some(RoundNanos(x.tenths))

\* Instant::checked_add
checked_add(instant, duration) ==
  IF duration > InstantMax - instant THEN None ELSE Some(instant + duration)

\* `if timeout < Duration::from_millis(1) { timeout = Duration::from_millis(1) }`
clamp(t) == IF t < Millisecond THEN Millisecond ELSE t

\* `while deadline < now { ... }`: the deadline is advanced by whole
\* timeouts until it is not before now, or until it cannot be advanced
RECURSIVE advance(_, _, _)
advance(d, now, t) ==
  IF d < now
    THEN IF IsSome(checked_add(d, t)) THEN advance(Unwrap(checked_add(d, t)), now, t)
         ELSE d
    ELSE d

\* an interval task at its `match`, the clock at some instant
TimerInit ==
  /\ InitBar
  /\ config = <<3>>
  /\ NoMerge
  /\ interval \in IntervalVals
  /\ timeout = None
  /\ clock \in {0, HalfMillisecond}
  /\ deadline = clock
  /\ start = clock
  /\ tipc = "match"
  /\ halt_msg = FALSE
  /\ sent = <<>>
  /\ NoSet
  /\ NoMain

TimerRest ==
  <<barVars, ctlVars, rVars, lastFrame, instVars, headers, mergeVars, setVars,
    mainVars>>

\* match toml.interval.map(Duration::try_from_secs_f32): the loop is entered
\* with a timeout that is not zero, clamped; else the task goes to its final
\* recv
TimerMatch ==
  /\ tipc = "match"
  /\ LET try == IF IsSome(interval) THEN try_from_secs_f32(Unwrap(interval))
                ELSE None
     IN  IF IsSome(try) /\ Unwrap(try) # ZERO
           THEN timeout' = Some(clamp(Unwrap(try))) /\ tipc' = "loop"
           ELSE timeout' = None /\ tipc' = "idle"
  /\ UNCHANGED <<interval, deadline, start, clock, halt_msg, sent, TimerRest>>

\* the top of the loop: Instant::now() and the while loop
TimerAdvance ==
  /\ tipc = "loop"
  /\ deadline' = advance(deadline, clock, Unwrap(timeout))
  /\ tipc' = "wait"
  /\ UNCHANGED <<interval, timeout, start, clock, halt_msg, sent, TimerRest>>

\* timeout_at(deadline, interval_recv.recv()) is Err: no halt message is
\* there and the deadline is not in the future
TimerElapsed ==
  /\ tipc = "wait"
  /\ ~halt_msg
  /\ deadline <= clock
  /\ Len(sent) < MaxSent
  /\ tipc' = "send"
  /\ UNCHANGED <<interval, timeout, deadline, start, clock, halt_msg, sent,
                 TimerRest>>

\* cmd_send.send(true).await completes
TimerSend ==
  /\ tipc = "send"
  /\ sent' = Append(sent, [deadline |-> deadline, at |-> clock])
  /\ tipc' = "loop"
  /\ UNCHANGED <<interval, timeout, deadline, start, clock, halt_msg, TimerRest>>

\* the halt message is received, by timeout_at or by the final recv
TimerHalt ==
  /\ tipc \in {"wait", "idle"}
  /\ halt_msg
  /\ halt_msg' = FALSE
  /\ tipc' = "done"
  /\ UNCHANGED <<interval, timeout, deadline, start, clock, sent, TimerRest>>

\* Block::halt: the halt message is sent
TimerHaltSent ==
  /\ tipc # "done"
  /\ ~halt_msg
  /\ halt_msg' = TRUE
  /\ UNCHANGED <<interval, timeout, deadline, start, clock, tipc, sent, TimerRest>>

\* time passes
TimerTick(n) ==
  /\ clock + n * HalfMillisecond <= MaxClock * HalfMillisecond
  /\ clock' = clock + n * HalfMillisecond
  /\ UNCHANGED <<interval, timeout, deadline, start, tipc, halt_msg, sent,
                 TimerRest>>

TimerNext ==
  \/ TimerMatch
  \/ TimerAdvance
  \/ TimerElapsed
  \/ TimerSend
  \/ TimerHalt
  \/ TimerHaltSent
  \/ \E n \in 1..MaxClock : TimerTick(n)

TimerSpec == TimerInit /\ [][TimerNext]_vars

(* ------------------------------- Blocks -------------------------------- *)

\* worker instances, and the number of remove_all calls that are counted
MaxWorkers == 4
MaxRemoves == 2
Workers == 1..MaxWorkers

\* the `blocks` arguments of add_all
BlockConfigs == Configs \cup { <<>>, <<3, 1>> }

\* Blocks::new, and no worker constructed yet
SetInit ==
  /\ InitBar
  /\ config = <<3>>
  /\ NoMerge
  /\ NoTimer
  /\ inner = <<>>
  /\ bpc = "idle"
  /\ taken = <<>>
  /\ token = [w \in Workers |-> FALSE]
  /\ task = [w \in Workers |-> "unborn"]
  /\ wid = [w \in Workers |-> 0]
  /\ wtoml = [w \in Workers |-> 1]
  /\ nextW = 1
  /\ removed = 0
  /\ NoMain

SetRest ==
  <<barVars, ctlVars, rVars, lastFrame, instVars, headers, mergeVars, timerVars,
    mainVars>>

\* the workers `for (id, toml) in blocks.enumerate()` constructs, as worker
\* instances: the k-th is the k-th fresh instance
NewWorkers(blocks_arg) == [k \in 1..Len(blocks_arg) |-> nextW + k - 1]

\* a loop that puts every new worker in front of the others
add_loop_front(vec, new, k) ==
  [j \in 1..Len(new) |-> new[Len(new) + 1 - j]] \o vec

\* the loop of add_all from its k-th iteration on: self.inner.push of the
\* k-th worker, then the rest
RECURSIVE add_loop(_, _, _)
add_loop(vec, new, k) ==
  IF k > Len(new) THEN vec
  ELSE add_loop(Append(vec, new[k]), new, k + 1)

\* the id enumerate() gives the k-th element
enumerate(k) == k - 1

\* an add_all without the assertion
AddAllUnchecked(blocks_arg) ==
  /\ bpc = "idle"
  /\ nextW + Len(blocks_arg) - 1 <= MaxWorkers
  /\ LET new == NewWorkers(blocks_arg)
     IN  /\ inner' = add_loop(inner, new, 1)
         /\ task' = [w \in Workers |->
                       IF w \in Range(new) THEN "running" ELSE task[w]]
         /\ wid' = [w \in Workers |->
                      IF w \in Range(new) THEN enumerate(w - nextW + 1) ELSE wid[w]]
         /\ wtoml' = [w \in Workers |->
                        IF w \in Range(new) THEN blocks_arg[w - nextW + 1]
                        ELSE wtoml[w]]
         /\ nextW' = nextW + Len(new)
  /\ UNCHANGED <<bpc, taken, token, removed, SetRest>>

\* Blocks::add_all(blocks, ..): the assertion, then one Block::new, one
\* task::spawn and one push per element.  add_all is not async: it runs as
\* one step.
AddAll(blocks_arg) ==
  /\ bpc = "idle"
  /\ nextW + Len(blocks_arg) - 1 <= MaxWorkers
  /\ IF inner # <<>>
       THEN /\ bpc' = "panic"
            /\ UNCHANGED <<inner, task, wid, wtoml, nextW>>
       ELSE LET new == NewWorkers(blocks_arg)
            IN  /\ inner' = add_loop(inner, new, 1)
                /\ task' = [w \in Workers |->
                              IF w \in Range(new) THEN "running" ELSE task[w]]
                /\ wid' = [w \in Workers |->
                             IF w \in Range(new) THEN enumerate(w - nextW + 1)
                             ELSE wid[w]]
                /\ wtoml' = [w \in Workers |->
                               IF w \in Range(new) THEN blocks_arg[w - nextW + 1]
                               ELSE wtoml[w]]
                /\ nextW' = nextW + Len(new)
                /\ UNCHANGED bpc
  /\ UNCHANGED <<taken, token, removed, SetRest>>

\* token.cancel() of the first worker of a taken vector
CancelFirst(vec) ==
  [w \in Workers |-> IF vec # <<>> /\ w = Head(vec) THEN TRUE ELSE token[w]]

\* a remove_all that empties the set without cancelling or awaiting
RemoveAllForgets ==
  /\ bpc = "idle"
  /\ removed < MaxRemoves
  /\ inner' = <<>>
  /\ removed' = removed + 1
  /\ UNCHANGED <<bpc, taken, token, task, wid, wtoml, nextW, SetRest>>

\* Blocks::remove_all is called: core::mem::take(&mut self.inner); with an
\* empty vector the loop does nothing and the call returns; else the first
\* token is cancelled and the first handle awaited
RemoveAll ==
  /\ bpc = "idle"
  /\ removed < MaxRemoves
  /\ inner' = <<>>
  /\ token' = CancelFirst(inner)
  /\ IF inner = <<>>
       THEN removed' = removed + 1 /\ UNCHANGED <<bpc, taken>>
       ELSE taken' = inner /\ bpc' = "remove_await" /\ UNCHANGED removed
  /\ UNCHANGED <<task, wid, wtoml, nextW, SetRest>>

\* handle.await yields Ok: the worker has ended.  The loop goes on to the
\* next worker, whose token it cancels, or ends, and remove_all returns
RemoveJoin ==
  /\ bpc = "remove_await"
  /\ task[Head(taken)] = "finished"
  /\ taken' = Tail(taken)
  /\ token' = CancelFirst(Tail(taken))
  /\ IF Tail(taken) = <<>>
       THEN bpc' = "idle" /\ removed' = removed + 1
       ELSE UNCHANGED <<bpc, removed>>
  /\ UNCHANGED <<inner, task, wid, wtoml, nextW, SetRest>>

\* handle.await yields a JoinError: the worker has panicked, unwrap panics;
\* the rest of the taken vector is dropped
RemoveJoinPanic ==
  /\ bpc = "remove_await"
  /\ task[Head(taken)] = "panicked"
  /\ taken' = <<>>
  /\ bpc' = "panic"
  /\ UNCHANGED <<inner, token, task, wid, wtoml, nextW, removed, SetRest>>

\* block.listen() returns: a worker ends when its token is cancelled
WorkerStops(w) ==
  /\ task[w] = "running"
  /\ token[w]
  /\ task' = [task EXCEPT ![w] = "finished"]
  /\ UNCHANGED <<inner, bpc, taken, token, wid, wtoml, nextW, removed, SetRest>>

\* the task of a worker panics
WorkerPanics(w) ==
  /\ task[w] = "running"
  /\ bpc # "panic"
  /\ task' = [task EXCEPT ![w] = "panicked"]
  /\ UNCHANGED <<inner, bpc, taken, token, wid, wtoml, nextW, removed, SetRest>>

\* Blocks::len
len == Len(inner)

\* Blocks::iter: the elements of self.inner, first to last
iter == inner

SetNext ==
  \/ \E c \in BlockConfigs : AddAll(c)
  \/ RemoveAll
  \/ RemoveJoin
  \/ RemoveJoinPanic
  \/ \E w \in Workers : WorkerStops(w)
  \/ \E w \in Workers : WorkerPanics(w)

SetSpec == SetInit /\ [][SetNext]_vars

(* ------------------- Smolbar::run of main.rs, alone -------------------- *)

\* Block instances the bar of main.rs constructs in one behaviour.
MaxBlocks == 6

MainBlocks == 1..MaxBlocks

\* What read_config can return: the items of a configuration that parse as
\* blocks (possibly none).
MainConfigs == Configs \cup { <<>> }

\* Smolbar::new has read the configuration and pushed its blocks; run has
\* spawned the cont, refresh and stop tasks.
MainInit ==
  /\ InitBar
  /\ NoMerge
  /\ NoTimer
  /\ NoSet
  /\ \E c \in MainConfigs :
       /\ cell_blocks = [k \in 1..Len(c) |-> k]
       /\ running = [b \in MainBlocks |-> IF b <= Len(c) THEN "running" ELSE "unborn"]
       /\ next_block = Len(c) + 1
  /\ cell_none = FALSE
  /\ cont_recv = 0
  /\ stop_recv = 0
  /\ cont_pc = "recv"
  /\ cont_taken = <<>>
  /\ stop_pc = "recv"
  /\ stop_taken = <<>>
  /\ refresh_recv = <<>>
  /\ refresh_pc = "recv"
  /\ cont_fwd = "alive"
  /\ reload_from = <<>>

MainRest ==
  <<barVars, ctlVars, rVars, lastFrame, instVars, headers, mergeVars, timerVars,
    setVars>>

\* run returns, and the process ends, when the stop task ends
MainAlive == stop_pc \notin {"done", "panic"}

\* the cell is restored with the emptied vector and the blocks of the
\* configuration just read are pushed into it, with no await in between
MainRestore(c) ==
  /\ next_block + Len(c) - 1 <= MaxBlocks
  /\ cell_none' = FALSE
  /\ cell_blocks' = [k \in 1..Len(c) |-> next_block + k - 1]
  /\ running' = [b \in MainBlocks |->
                   IF b >= next_block /\ b < next_block + Len(c)
                   THEN "running" ELSE running[b]]
  /\ next_block' = next_block + Len(c)
  /\ cont_pc' = "recv"

\* read_config(..)? returns the error from the cont task
MainReadFails ==
  /\ cont_pc' = "ended"
  /\ UNCHANGED <<cell_none, cell_blocks, running, next_block>>

\* the cont task receives true and takes the vector out of the cell; the
\* guard of the mutex is dropped at the end of that statement
MainContTake ==
  /\ MainAlive
  /\ cont_pc = "recv"
  /\ cont_recv > 0
  /\ cont_recv' = cont_recv - 1
  /\ IF cell_none
     THEN /\ cont_pc' = "panic"
          /\ UNCHANGED <<cell_none, cell_blocks, cont_taken, running,
                         next_block, reload_from>>
     ELSE /\ reload_from' = cell_blocks
          /\ IF cell_blocks # <<>>
             THEN /\ cell_none' = TRUE
                  /\ cell_blocks' = <<>>
                  /\ cont_taken' = cell_blocks
                  /\ cont_pc' = "stopping"
                  /\ UNCHANGED <<running, next_block>>
             ELSE /\ cont_taken' = <<>>
                  /\ \/ \E c \in MainConfigs : MainRestore(c)
                     \/ MainReadFails
  /\ UNCHANGED <<stop_recv, stop_pc, stop_taken, refresh_recv, refresh_pc,
                 cont_fwd, MainRest>>

\* block.stop().await of the drain loop returns for the next block
MainContStopBlock ==
  /\ MainAlive
  /\ cont_pc = "stopping"
  /\ cont_taken # <<>>
  /\ running' = [running EXCEPT ![Head(cont_taken)] = "stopped"]
  /\ cont_taken' = Tail(cont_taken)
  /\ UNCHANGED <<cell_none, cell_blocks, cont_recv, stop_recv, cont_pc, stop_pc,
                 stop_taken, next_block, refresh_recv, refresh_pc, cont_fwd,
                 reload_from, MainRest>>

\* every old block is stopped; the configuration is read again and parses
MainContReadOk(c) ==
  /\ MainAlive
  /\ cont_pc = "stopping"
  /\ cont_taken = <<>>
  /\ MainRestore(c)
  /\ UNCHANGED <<cont_recv, stop_recv, cont_taken, stop_pc, stop_taken,
                 refresh_recv, refresh_pc, cont_fwd, reload_from, MainRest>>

\* every old block is stopped; reading the configuration fails
MainContReadErr ==
  /\ MainAlive
  /\ cont_pc = "stopping"
  /\ cont_taken = <<>>
  /\ MainReadFails
  /\ UNCHANGED <<cont_recv, stop_recv, cont_taken, stop_pc, stop_taken,
                 refresh_recv, refresh_pc, cont_fwd, reload_from, MainRest>>

\* the stop task receives and takes the vector out of the cell
MainStopTake ==
  /\ MainAlive
  /\ stop_pc = "recv"
  /\ stop_recv > 0
  /\ stop_recv' = stop_recv - 1
  /\ IF cell_none
     THEN /\ stop_pc' = "panic"
          /\ UNCHANGED <<cell_none, cell_blocks, stop_taken>>
     ELSE /\ cell_none' = TRUE
          /\ cell_blocks' = <<>>
          /\ stop_taken' = cell_blocks
          /\ stop_pc' = "stopping"
  /\ UNCHANGED <<cont_recv, cont_pc, cont_taken, running, next_block,
                 refresh_recv, refresh_pc, cont_fwd, reload_from, MainRest>>

\* block.stop().await of the stop task returns for the next block
MainStopBlock ==
  /\ MainAlive
  /\ stop_pc = "stopping"
  /\ stop_taken # <<>>
  /\ running' = [running EXCEPT ![Head(stop_taken)] = "stopped"]
  /\ stop_taken' = Tail(stop_taken)
  /\ UNCHANGED <<cell_none, cell_blocks, cont_recv, stop_recv, cont_pc,
                 cont_taken, stop_pc, next_block, refresh_recv, refresh_pc,
                 cont_fwd, reload_from, MainRest>>

\* refresh_send.send(false).await.unwrap()
MainStopSend ==
  /\ MainAlive
  /\ stop_pc = "stopping"
  /\ stop_taken = <<>>
  /\ IF refresh_pc = "failed"
     THEN /\ stop_pc' = "panic"
          /\ UNCHANGED refresh_recv
     ELSE /\ Len(refresh_recv) < RefreshCap
          /\ refresh_recv' = Append(refresh_recv, FALSE)
          /\ stop_pc' = "join"
  /\ UNCHANGED <<cell_none, cell_blocks, cont_recv, stop_recv, cont_pc,
                 cont_taken, stop_taken, running, next_block, refresh_pc,
                 cont_fwd, reload_from, MainRest>>

\* refresh.await.unwrap().unwrap()
MainStopJoin ==
  /\ stop_pc = "join"
  /\ refresh_pc # "recv"
  /\ stop_pc' = IF refresh_pc = "exited" THEN "done" ELSE "panic"
  /\ UNCHANGED <<cell_none, cell_blocks, cont_recv, stop_recv, cont_pc,
                 cont_taken, stop_taken, running, next_block, refresh_recv,
                 refresh_pc, cont_fwd, reload_from, MainRest>>

\* the refresh task receives: false ends it, true writes a frame when the
\* cell holds a vector and writes nothing when it holds None
MainRefreshRecv ==
  /\ MainAlive
  /\ refresh_pc = "recv"
  /\ refresh_recv # <<>>
  /\ refresh_recv' = Tail(refresh_recv)
  /\ refresh_pc' = IF Head(refresh_recv) THEN "recv" ELSE "exited"
  /\ UNCHANGED <<cell_none, cell_blocks, cont_recv, stop_recv, cont_pc,
                 cont_taken, stop_pc, stop_taken, running, next_block,
                 cont_fwd, reload_from, MainRest>>

\* a write of the frame fails and ? returns the error from the refresh task
MainRefreshWriteErr ==
  /\ MainAlive
  /\ refresh_pc = "recv"
  /\ refresh_recv # <<>>
  /\ Head(refresh_recv)
  /\ ~cell_none
  /\ refresh_recv' = <<>>
  /\ refresh_pc' = "failed"
  /\ UNCHANGED <<cell_none, cell_blocks, cont_recv, stop_recv, cont_pc,
                 cont_taken, stop_pc, stop_taken, running, next_block,
                 cont_fwd, reload_from, MainRest>>

\* the cmd task of a running block has refreshed its body and pings the bar
MainBlockRefresh(b) ==
  /\ MainAlive
  /\ running[b] = "running"
  /\ refresh_pc # "failed"
  /\ Len(refresh_recv) < RefreshCap
  /\ refresh_recv' = Append(refresh_recv, TRUE)
  /\ UNCHANGED <<cell_none, cell_blocks, cont_recv, stop_recv, cont_pc,
                 cont_taken, stop_pc, stop_taken, running, next_block,
                 refresh_pc, cont_fwd, reload_from, MainRest>>

\* the cont signal arrives and its forwarding task sends true; the send
\* fails once the cont task, which owns the receiver, has ended
MainSigCont ==
  /\ MainAlive
  /\ cont_fwd = "alive"
  /\ IF cont_pc \in {"ended", "panic"}
     THEN /\ cont_fwd' = "panic"
          /\ UNCHANGED cont_recv
     ELSE /\ cont_recv < CtlCap
          /\ cont_recv' = cont_recv + 1
          /\ UNCHANGED cont_fwd
  /\ UNCHANGED <<cell_none, cell_blocks, stop_recv, cont_pc, cont_taken,
                 stop_pc, stop_taken, running, next_block, refresh_recv,
                 refresh_pc, reload_from, MainRest>>

\* the stop signal arrives and its forwarding task sends true
MainSigStop ==
  /\ MainAlive
  /\ stop_recv < CtlCap
  /\ stop_recv' = stop_recv + 1
  /\ UNCHANGED <<cell_none, cell_blocks, cont_recv, cont_pc, cont_taken,
                 stop_pc, stop_taken, running, next_block, refresh_recv,
                 refresh_pc, cont_fwd, reload_from, MainRest>>

MainNext ==
  \/ MainContTake
  \/ MainContStopBlock
  \/ \E c \in MainConfigs : MainContReadOk(c)
  \/ MainContReadErr
  \/ MainStopTake
  \/ MainStopBlock
  \/ MainStopSend
  \/ MainStopJoin
  \/ MainRefreshRecv
  \/ MainRefreshWriteErr
  \/ \E b \in MainBlocks : MainBlockRefresh(b)
  \/ MainSigCont
  \/ MainSigStop

MainSpec == MainInit /\ [][MainNext]_vars

(* ------------------------------ fairness ------------------------------- *)

\* bar_refresh.send(true) of the cmd task of the block that is being halted
HaltedSendBar == haltq # <<>> /\ CmdSendBar(Halting)

\* a step of the caller's task inside Smolbar::run, after the header
BarStep ==
  \/ PushBlock \/ BlockNewSend \/ PushDone
  \/ TakeBlocks \/ HaltsDone \/ HaltTriggers \/ HaltSendCmd \/ HaltReturn
  \/ StopSend \/ StopJoin

\* The tokio runtime polls every task that can run: weak fairness for the
\* steps of the refresh task and the blocks' tasks.  Strong fairness where a
\* step competes for a resource that others take and release meanwhile: the
\* blocks mutex and the channel semaphore are FIFO, so a waiter is served
\* (the bar's task waits for the mutex and for room in a cmd channel, the
\* cmd task of the block being halted for room in the refresh channel);
\* select! picks at random among its ready branches.  Nothing makes a
\* command end, a timer fire, a signal arrive or the caller send.
Fairness ==
  /\ SF_vars(BarStep)
  /\ WF_vars(RefreshRecv) /\ WF_vars(RefreshSelectRecv)
  /\ WF_vars(RefreshWrite \/ RefreshWriteErr)
  /\ SF_vars(HaltedSendBar)
  /\ SF_vars(\E i \in Inst : SignalHalt(i))
  /\ \A i \in Inst :
       /\ WF_vars(CmdRecv(i)) /\ WF_vars(CmdSelectRecv(i))
       /\ WF_vars(CmdSendBar(i))
       /\ WF_vars(IntervalSend(i)) /\ WF_vars(IntervalHalt(i))
       /\ WF_vars(SignalSend(i))

\* The liveness properties are checked on the behaviours of the bar that
\* starts with the configuration of two command blocks (one with an
\* interval); every configuration of Configs can follow on a Cont.
LiveConfig == <<1, 2>>

LiveInit == Init /\ config = LiveConfig

LiveSpec == LiveInit /\ [][Next]_vars /\ Fairness

(* ------------------------------ properties ----------------------------- *)

\* C1: while the Cont handler pushes the blocks of the new configuration,
\* every block of an earlier configuration (one that exists and is neither
\* in the vector nor under construction) has been halted (its halt has
\* returned) and none of its tasks runs.
C1_OldHaltedBeforePush ==
  (handler = "cont" /\ barpc \in {"push", "push_send"}) =>
    \A i \in Inst :
      (life[i] # "unborn" /\ i \notin Range(blocks) /\ i # cur) =>
        (life[i] = "halted" /\ TasksEnded(i))

\* the first block of a new configuration is being constructed, after a
\* block with an interval task and a running command was halted
C1_Witness ==
  /\ handler = "cont" /\ barpc = "push_send" /\ blocks = <<>>
  /\ \E i \in Inst : life[i] = "halted" /\ TomlBlocks[toml[i]].interval = "valid"
                       /\ orphan[i]

\* C2: once run has consumed a Stop, run eventually returns Ok.
C2_StopTerminates == (handler = "stop") ~> (barpc = "done")

\* Stop is being handled with the refresh channel full, a command in
\* flight and the refresh task waiting for the blocks lock
C2_Witness ==
  /\ handler = "stop" /\ barpc = "halt_triggers"
  /\ Len(rchan) = RefreshCap
  /\ rpc = "select"
  /\ cmdpc[Halting] = "send"
  /\ \E i \in Inst : cmdpc[i] = "select"

\* C3: a cmd task is at bar_refresh.send only while the refresh receiver
\* exists (it is neither dropped nor has the refresh loop exited).
C3_NoSendAfterReceiverDropped ==
  \A i \in Inst : cmdpc[i] = "send" => RefreshRecvAlive

\* C4: once halt has returned for a block, its three tasks have terminated
\* and no step writes its body or sends a refresh message for it.
C4_HaltedBlockIsSilent ==
  [][\A i \in Inst : life[i] = "halted" =>
        /\ cmdpc[i] = "done" /\ ipc[i] = "done" /\ spc[i] = "done"
        /\ body'[i] = body[i]
        /\ cmdpc'[i] = "done" /\ ipc'[i] = "done" /\ spc'[i] = "done"]_vars

\* a block without triggers was halted while its command was running: the
\* only message that can reach its select! is the halt
C4_Witness ==
  \E i \in Inst : /\ life[i] = "halted" /\ orphan[i]
                   /\ TomlBlocks[toml[i]].interval = "absent"
                   /\ TomlBlocks[toml[i]].signal = "absent"

\* C5: no frame is written while stdout ends with a frame that is still
\* current (no body and no vector change since it was written).
C5_NoDuplicateFrame ==
  [][(rpc = "write" /\ lastFrame' = "current") => lastFrame # "current"]_vars

\* C6: the frame being written lists the blocks in the order of the
\* configuration they were pushed from: the k-th body is that of the block
\* constructed from the k-th configured block.
C6_FrameInConfigOrder ==
  rpc = "write" =>
    /\ Len(blocks) <= Len(pushedFrom)
    /\ \A k \in 1..Len(blocks) :
         toml[blocks[k]] = pushedFrom[k] /\ id[blocks[k]] = k

\* a frame of two blocks is written where the second block's command has
\* finished and the first block's has not
C6_Witness ==
  /\ rpc = "write" /\ Len(blocks) = 2
  /\ cmdpc[blocks[1]] = "select"
  /\ body[blocks[1]] = apply_scopes(<<>>, GlobalBody, TomlBlocks[toml[blocks[1]]])
  /\ body[blocks[2]] = apply_scopes(<<"ok">>, GlobalBody, TomlBlocks[toml[blocks[2]]])

\* C7: a Cont whose configuration cannot be read changes neither the stored
\* configuration nor the blocks (none halted, none created, their tasks
\* untouched), and leaves run waiting for the next event.
C7_ReadErrorKeepsBlocks ==
  [][ContReadErr =>
       /\ config' = config /\ pushedFrom' = pushedFrom
       /\ blocks' = blocks /\ blocksNone' = blocksNone /\ nextId' = nextId
       /\ life' = life /\ toml' = toml /\ body' = body
       /\ cmdpc' = cmdpc /\ ipc' = ipc /\ spc' = spc
       /\ cchan' = cchan /\ ichan' = ichan /\ schan' = schan
       /\ barpc' = "loop"]_vars

\* a read error was logged, the blocks run on (a command is in flight) and
\* the next event is in the control channel
C7_Witness ==
  /\ handler = "cont_failed" /\ barpc = "loop" /\ ctl # <<>>
  /\ blocks # <<>>
  /\ \A k \in 1..Len(blocks) : life[blocks[k]] = "live"
  /\ \E k \in 1..Len(blocks) : cmdpc[blocks[k]] = "select"

\* C8: after a failed frame write no further frame is written (the bar
\* shuts down).
C8_WriteFailureIsFatal ==
  [][lastFrame = "broken" => lastFrame' = "broken"]_vars

\* C9: a running command ends only by its output or by a halt: the cmd task
\* never leaves its select! for the next recv.
C9_OnlyHaltPreempts ==
  [][\A i \in Inst : cmdpc[i] = "select" => cmdpc'[i] # "recv"]_vars

\* C10: no command process of a block runs on after the block's halt
\* has returned.
C10_HaltKillsCommand ==
  \A i \in Inst : life[i] = "halted" => ~orphan[i]

C12_NoWriteWhileHandling ==
  (handler \in {"cont", "stop"} /\ barpc # "lock") => rpc # "write"

\* C13: run returns Ok only from the Stop handler, and once it has returned
\* nothing is taken from the control channel.
C13_OnlyStopEndsLoop ==
  [][/\ (barpc' = "done" /\ barpc # "done") =>
          (handler = "stop" /\ barpc = "stop_join")
     /\ barpc = "done" => (barpc' = "done" /\ ctl' = ctl)]_vars

\* run has returned after a reload, with an event that was sent after the
\* Stop left in the control channel
C13_Witness ==
  /\ barpc = "done" /\ ctl # <<>>
  /\ nextId > Len(config) + 1

\* C14: as long as no header is written the refresh task is not spawned, no
\* frame is written and nothing is taken from the control channel; and
\* when run has returned the header error no header is written.
C14_HeaderFirst ==
  [][/\ headers = 0 =>
          /\ rpc = "unspawned" /\ lastFrame = "none"
          /\ Len(ctl') >= Len(ctl)
     /\ barpc = "err" => headers = 0]_vars

\* run has returned the header error with an event in the control channel
\* and a block waiting to send its refresh
C14_Witness ==
  /\ barpc = "err" /\ ctl # <<>>
  /\ \E i \in Inst : cmdpc[i] = "send"

\* C15: at most one header is written, every frame and every refresh loop
\* comes after it, and a reload or a restart of the refresh loop writes none.
C15_HeaderOnce ==
  /\ headers <= 1
  /\ lastFrame # "none" => headers = 1
  /\ rpc # "unspawned" => headers = 1

\* after a reload a frame write failed and the restarted refresh loop handles
\* the next refresh
C15_Witness ==
  /\ headers = 1 /\ lastFrame = "broken" /\ rpc = "select"
  /\ handler = "none" /\ barpc = "loop"
  /\ \E i \in Inst : life[i] = "halted"

\* C16: when run has returned the header error every block that was
\* constructed has been halted.
C16_HaltedBeforeError ==
  barpc = "err" => \A i \in Inst : life[i] # "unborn" => life[i] = "halted"

\* C17: a refresh request that the cmd task takes in its while condition
\* leads to a merge and a refresh request to the bar: the task goes on to
\* run the command or to bar_refresh.send.
C17_RequestLeadsToRefresh ==
  [][\A i \in Inst :
       (cmdpc[i] = "recv" /\ cchan[i] # <<>> /\ Head(cchan[i])
          /\ cchan'[i] = Tail(cchan[i])) =>
         cmdpc'[i] \in {"select", "send"}]_vars

\* C18: when a command fails or prints invalid UTF-8 the body becomes the
\* merge of no line, the cmd task goes on to bar_refresh.send, and the bar
\* and the control channel are as they were.
C18_CommandFailureIsLocal ==
  [][\A i \in Inst : \A r \in CmdResults \ {"ok"} :
       CmdOutput(i, r) =>
         /\ body'[i] = apply_scopes(<<>>, GlobalBody, TomlBlocks[toml[i]])
         /\ cmdpc'[i] = "send"
         /\ UNCHANGED <<barVars, ctlVars>>]_vars

\* a command has failed: the cmd task is at bar_refresh.send with the merge
\* of no line as body (it gets there only from the output branch), and the
\* next request waits in the cmd channel
C18_Witness ==
  \E i \in Inst :
    /\ cmdpc[i] = "send" /\ life[i] = "live"
    /\ body[i] = apply_scopes(<<>>, GlobalBody, TomlBlocks[toml[i]])
    /\ cchan[i] # <<>> /\ Head(cchan[i])
    /\ barpc = "loop"

\* C19: after a merge every field holds the parsed value of the line at the
\* field's position when that line exists and parses, else the local value
\* when set, else the global value when set, else nothing (full_text before
\* prefix and postfix); so a line that does not parse leaves the other
\* fields to their own lines.
C19_MergeFallsBack ==
  IsSome(merged) =>
    \A k \in 1..Len(FieldOrder) :
      LET f      == FieldOrder[k]
          line   == LineAt(scopes.lines, k)
          new    == IF IsSome(line) THEN parse(FieldType(f), Unwrap(line)) ELSE None
          local  == scopes.toml.body[f]
          global == scopes.global[f]
          want   == IF IsSome(new) THEN new
                    ELSE IF IsSome(local) THEN local
                    ELSE IF IsSome(global) THEN global
                    ELSE None
      IN  Unwrap(merged)[f] = IF f = "full_text" THEN affix(scopes.toml, want)
                              ELSE want

\* a merge of six lines whose sixth does not parse as u32: border_top falls
\* back to the local value, below the global one, and the other fields
\* take their lines
C19_Witness ==
  /\ IsSome(merged)
  /\ Len(scopes.lines) = 6 /\ scopes.lines[6] = "ok" /\ scopes.lines[2] = "07"
  /\ scopes.toml.body.border_top = Some("1")
  /\ scopes.global.border_top = Some("2")
  /\ Unwrap(merged).border_top = Some("1")
  /\ Unwrap(merged).short_text = Some("07")

\* C20: after a merge full_text is prefix, merged text, postfix when the
\* merged text is set (an absent prefix or postfix counting as empty), and
\* unset when the merged text is unset.
C20_PrefixPostfix ==
  IsSome(merged) =>
    LET t    == scopes.toml
        text == update("str", LineAt(scopes.lines, 1), t.body.full_text,
                       scopes.global.full_text)
        pre  == IF IsSome(t.prefix) THEN Unwrap(t.prefix) ELSE ""
        post == IF IsSome(t.postfix) THEN Unwrap(t.postfix) ELSE ""
    IN  Unwrap(merged).full_text =
          IF IsSome(text) THEN Some(pre \o Unwrap(text) \o post) ELSE None

\* a merge that leaves full_text unset although prefix and postfix are
\* configured
C20_Witness ==
  /\ IsSome(merged)
  /\ IsSome(scopes.toml.prefix) /\ IsSome(scopes.toml.postfix)
  /\ Unwrap(merged).full_text = None

\* C21: a block with no command has, from its construction until it is
\* halted, the body that merging no line with its local and global scope
\* gives (prefix "CPU: " and local full_text "idle": "CPU: idle"); no refresh
\* request changes it.
C21_NoCommandBodyIsConfig ==
  \A i \in Inst :
    (life[i] \in {"live", "dropped"} /\ ~TomlBlocks[toml[i]].command) =>
      /\ body[i] = apply_scopes(<<>>, GlobalBody, TomlBlocks[toml[i]])
      /\ (toml[i] = 3 => body[i].full_text = Some("CPU: idle"))

\* a block with no command is in the bar, has consumed the request of
\* Block::new and a request of its signal trigger waits in its cmd channel
C21_Witness ==
  \E i \in Inst :
    /\ life[i] = "live" /\ toml[i] = 3 /\ i \in Range(blocks)
    /\ barpc = "loop" /\ spc[i] = "wait"
    /\ cmdpc[i] = "recv" /\ cchan[i] = <<TRUE>>
    /\ body[i].full_text = Some("CPU: idle")

\* C22: once the interval task is past its match, a positive interval below
\* one millisecond has given the timeout of one millisecond and the loop
\* runs.
C22_SubMillisecondIsClamped ==
  (/\ tipc # "match"
   /\ IsSome(interval)
   /\ Unwrap(interval).class = "num"
   /\ Unwrap(interval).tenths > 0
   /\ Unwrap(interval).tenths < 10 * Millisecond)
    => (timeout = Some(Millisecond) /\ tipc # "idle")

\* C23: when the interval task sent a request after its deadline had passed,
\* it sends no second request for the same deadline: the deadline moves on
\* along the grid, also when advancing it overflows.
C23_NoBurstAfterDelay ==
  \A j, k \in 1..Len(sent) :
    (j < k /\ sent[j].deadline < sent[j].at) => sent[k].deadline # sent[j].deadline

\* C24: the signal task of a block with no signal (a signal that cannot be
\* registered takes the same path to the final recv) stays idle until it
\* receives the halt message, and then terminates: it leaves its final recv
\* only by receiving halt.
C24_IdleUntilHalt ==
  [][\A i \in Inst :
       (/\ life[i] # "unborn"
        /\ TomlBlocks[toml[i]].signal # "ok"
        /\ spc[i] = "idle"
        /\ spc'[i] # "idle")
         => (schan[i] /\ ~schan'[i] /\ spc'[i] = "done")]_vars

\* the interval trigger of block i has been halted (it has received the halt
\* message, or waits for its deadline with the halt message there), no other
\* trigger of the block can send, and the cmd task has no request to serve
TriggerHaltedIdle(i) ==
  /\ life[i] = "live"
  /\ TomlBlocks[toml[i]].interval = "valid"
  /\ TomlBlocks[toml[i]].signal # "ok"
  /\ ipc[i] = "done" \/ (ipc[i] = "wait" /\ ichan[i])
  /\ cmdpc[i] \in {"recv", "done"}
  /\ TRUE \notin Range(cchan[i])

C26_RemovedItemNotWritten ==
  [][RefreshWrite =>
       /\ \A k \in 1..Len(blocks) :
            /\ life[blocks[k]] = "live"
            /\ toml[blocks[k]] \in Range(pushedFrom)
       /\ (handler \in {"none", "cont_failed"} => pushedFrom = config)]_vars

\* a Cont has replaced the configuration while a command of an item it
\* removes was running; the Cont is handled, the command still runs, and a
\* frame of the new blocks has been written
C26_Witness ==
  /\ barpc = "loop" /\ handler = "none"
  /\ lastFrame = "current" /\ blocks # <<>>
  /\ \E i \in Inst :
       /\ life[i] = "halted" /\ orphan[i]
       /\ toml[i] \notin Range(config)

\* C27: no message enters the control channel once the bar has begun its
\* terminal shutdown (it handles Stop) or has returned from run.
C27_NoForwardAfterShutdown ==
  [][Len(ctl') > Len(ctl) =>
       (handler # "stop" /\ barpc \notin {"done", "err"})]_vars

\* C28: when remove_all returns, the set is empty and every worker that
\* was constructed has its token cancelled and its task ended; a call on an
\* empty set returns at once and changes nothing, so a second call in a row
\* does what the first has done already.
C28_RemoveAllStopsAll ==
  [][/\ removed' = removed + 1 =>
          /\ inner' = <<>>
          /\ bpc' = "idle"
          /\ \A w \in 1..(nextW - 1) : token'[w] /\ task'[w] = "finished"
     /\ (RemoveAll /\ inner = <<>>) =>
          UNCHANGED <<inner, bpc, taken, token, task, wid, wtoml, nextW>>]_vars

\* two workers were added by one add_all and removed, and remove_all has
\* returned twice: once with workers to stop, once on an empty set
C28_Witness ==
  /\ removed = 2 /\ bpc = "idle" /\ inner = <<>>
  /\ nextW = 3 /\ wid[2] = 1
  /\ token[1] /\ token[2] /\ task[1] = "finished" /\ task[2] = "finished"

\* C29: add_all on a set that is not empty fails its assertion and
\* constructs, spawns and pushes nothing; a worker is only ever constructed
\* when the set is empty.
C29_AddAllAssertsEmpty ==
  [][/\ \A c \in BlockConfigs :
          (AddAll(c) /\ inner # <<>>) =>
            /\ bpc' = "panic"
            /\ UNCHANGED <<inner, taken, token, task, wid, wtoml, nextW>>
     /\ (\E w \in Workers : task[w] = "unborn" /\ task'[w] # "unborn") =>
          inner = <<>>]_vars

\* add_all was called on a set of two running workers and has panicked;
\* the set is as it was
C29_Witness ==
  /\ bpc = "panic" /\ Len(inner) = 2 /\ nextW = 3
  /\ \A k \in 1..Len(inner) : task[inner[k]] = "running"

\* C30: add_all on an empty set constructs one worker per config, each a
\* fresh one; afterwards len() is the number of configs and iter() yields
\* the workers in the order of the configs, the k-th with id k-1 and with
\* the k-th config.
C30_AddAllInOrder ==
  [][\A c \in BlockConfigs :
       (AddAll(c) /\ inner = <<>>) =>
         /\ len' = Len(c)
         /\ nextW' = nextW + Len(c)
         /\ \A k \in 1..Len(c) :
              /\ wid'[iter'[k]] = k - 1
              /\ wtoml'[iter'[k]] = c[k]
              /\ task[iter'[k]] = "unborn" /\ task'[iter'[k]] = "running"
              /\ \A j \in 1..Len(c) : j # k => iter'[j] # iter'[k]]_vars

\* add_all of the configs <<3, 1>> on a set that once held another worker:
\* two workers, the first with id 0 and config 3, the second with id 1 and
\* config 1
C30_Witness ==
  /\ len = 2 /\ nextW > 3
  /\ wid[iter[1]] = 0 /\ wtoml[iter[1]] = 3
  /\ wid[iter[2]] = 1 /\ wtoml[iter[2]] = 1
  /\ task[iter[1]] = "running" /\ task[iter[2]] = "running"

\* C31: the halt message (false) is in the cmd channel, or has ended the cmd
\* task, only when the interval task and the signal task of the block have
\* both ended; so no trigger is left to send to a cmd task that has halted.
C31_TriggersEndBeforeCmd ==
  \A i \in Inst :
    (life[i] # "unborn" /\ (cmdpc[i] = "done" \/ FALSE \in Range(cchan[i]))) =>
      (ipc[i] = "done" /\ spc[i] = "done")

\* halt has sent false to the cmd task of a block with a registered signal,
\* after the signal task has received its halt message and ended
C31_Witness ==
  \E i \in Inst :
    /\ life[i] = "live" /\ TomlBlocks[toml[i]].signal = "ok"
    /\ barpc = "halt_cmd" /\ Halting = i
    /\ FALSE \in Range(cchan[i])
    /\ spc[i] = "done" /\ ipc[i] = "done"

\* C32: while the refresh task is alive, the blocks cell holds Some whenever
\* the blocks mutex is unlocked; so the refresh loop and push_block, which
\* look into the cell after locking, never find None.
C32_NoneOnlyWhileLocked ==
  (lock = "free" /\ rpc # "exited") => ~blocksNone

\* a Cont has taken the blocks, halted them and put an empty vector back;
\* the mutex is unlocked again while the refresh task waits in its select!
C32_Witness ==
  /\ handler = "cont" /\ barpc = "push"
  /\ lock = "free" /\ ~blocksNone /\ blocks = <<>>
  /\ rpc = "select"
  /\ \E i \in Inst : life[i] = "halted"

\* C33: no unwrap of a channel send or recv fails: no cmd task, interval
\* task or signal task ever panics.
C33_NoChannelUnwrapFails ==
  \A i \in Inst :
    cmdpc[i] # "panic" /\ ipc[i] # "panic" /\ spc[i] # "panic"

\* C34: every frame written holds one block for every item of the
\* configuration the vector is filled from: never an empty or partly filled
\* vector.
C34_FrameIsWholeConfig ==
  [][RefreshWrite =>
       /\ Len(blocks) = Len(pushedFrom)
       /\ \A k \in 1..Len(blocks) : toml[blocks[k]] = pushedFrom[k]]_vars

\* C35: when no handler runs, every block has a command, every cmd task
\* waits for a request with none pending, and the refresh task waits with
\* its channel empty, then the last frame written (if its write did not
\* fail) shows the current bodies: no refresh request was consumed without
\* a later write.
C35_QuietFrameIsCurrent ==
  (/\ barpc = "loop" /\ handler = "none" /\ ctl = <<>>
   /\ rpc = "recv" /\ rchan = <<>>
   /\ blocks # <<>>
   /\ \A k \in 1..Len(blocks) :
        /\ TomlBlocks[toml[blocks[k]]].command
        /\ cmdpc[blocks[k]] = "recv"
        /\ cchan[blocks[k]] = <<>>)
    => lastFrame \in {"current", "broken"}

\* C36: whenever the cmd task of a live block with a command takes a
\* request (true) from its channel, a run of the command starts for it: the
\* task is then in its select!, awaiting the output.
C36_RequestStartsCommand ==
  [][\A i \in Inst :
       (/\ life[i] = "live"
        /\ TomlBlocks[toml[i]].command
        /\ cchan[i] # <<>> /\ Head(cchan[i])
        /\ cchan'[i] = Tail(cchan[i]))
         => (cmdpc[i] = "recv" /\ cmdpc'[i] = "select")]_vars

\* body b is what one whole merge of `lines` with the scopes of t gives:
\* every field updated from its line, and prefix and postfix applied
CompleteMerge(b, t, lines) ==
  \A k \in 1..Len(FieldOrder) :
    LET f    == FieldOrder[k]
        want == update(FieldType(f), LineAt(lines, k), t.body[f], GlobalBody[f])
    IN  b[f] = IF f = "full_text" THEN affix(t, want) ELSE want

\* C37: the body of every block the refresh loop can read is the result of
\* one whole merge, of no line or of the lines of a command's output; and a
\* body changes only when the block is constructed, when its cmd task
\* merges an output, and when the block is dropped by halt.
C37_BodyIsWholeMerge ==
  [][\A i \in Inst :
       /\ life'[i] \in {"live", "dropped"} =>
            \E r \in CmdResults :
              \/ CompleteMerge(body'[i], TomlBlocks[toml'[i]], <<>>)
              \/ CompleteMerge(body'[i], TomlBlocks[toml'[i]], immediate(r))
       /\ body'[i] # body[i] =>
            \/ life[i] = "unborn" /\ cur' = i
            \/ cmdpc[i] = "select" /\ cmdpc'[i] = "send"
            \/ life'[i] = "halted"]_vars

\* the refresh task holds the blocks lock to write a frame, and a block of
\* the vector has the body its cmd task merged from the output "ok" with
\* the prefix "A: "
C37_Witness ==
  /\ rpc = "write" /\ lock = "refresh"
  /\ \E k \in 1..Len(blocks) :
       /\ toml[blocks[k]] = 1
       /\ body[blocks[k]].full_text = Some("A: ok")

\* C38: in Smolbar::run of main.rs the blocks cell is never None while its
\* mutex is unlocked (no task holds the mutex across an await, so it is
\* unlocked in every state) until the stop task has taken the vector, and
\* take().unwrap() of the stop task never finds None.
C38_CellNeverNoneUnlocked ==
  /\ stop_pc = "recv" => ~cell_none
  /\ stop_pc # "panic"

\* C39: in Smolbar::run of main.rs, when read_config fails during a reload,
\* the blocks that ran before the reload still run, the cell holds the same
\* block set, and the cont task goes on to receive the next Cont.
C39_FailedReloadKeepsBlocks ==
  [][(MainContReadErr \/ (MainContTake /\ cont_pc' = "ended")) =>
       /\ cont_pc' = "recv"
       /\ ~cell_none'
       /\ cell_blocks' = reload_from'
       /\ \A b \in Range(reload_from') : running'[b] = "running"]_vars

=============================================================================
